---- MODULE Spec2Model ----
(***************************************************************************)
(* Interview time-slot scheduling of the Hexagon backend:                  *)
(* src/src/models/Interview.js (schema, virtuals, checkTimeConflict,       *)
(* cleanupExpiredInterviews) and src/src/routes/interviews.js (the         *)
(* schedule / cancel / start / complete / cleanup handlers).               *)
(*                                                                         *)
(* Every handler is an async function: it runs in the steps that its       *)
(* awaits cut it into.  A step that reads or writes the store is one       *)
(* atomic action; between two steps of one request any step of another     *)
(* request, and any tick of the clock, may happen.                         *)
(* Instants are integer milliseconds, as Date.getTime() gives them.        *)
(***************************************************************************)
EXTENDS Integers, Sequences, FiniteSets, TLC

\* ---------------------------------------------------------------- bounds
MaxTime == 3          \* the clock runs over 0 .. MaxTime minutes
MaxInterviews == 2    \* interview ids ever assigned: 1 .. MaxInterviews

\* ------------------------------------------------------ program constants
MsPerMinute == 60000      \* duration * 60 * 1000
DefaultDuration == 10     \* const { ..., duration = 10 } = req.body

\* --------------------------------------------------------------- domains
Users == {"u1", "u2"}
NoJob == "nojob"                  \* a job id that names no job
Reqs == {1, 2}                    \* requests that may be in flight together
SeqReqs == {1}                    \* one request at a time
Ids == 1 .. MaxInterviews
Instants == {m * MsPerMinute : m \in 0 .. MaxTime}

NoId == 0                 \* excludeId = null
NoDate == -1              \* a null Date (startedAt, completedAt), or a field
                          \* the request body does not carry
NoNotes == "<null>"       \* notes: null, or absent from the request body
Missing == "<missing>"    \* a string field the request body does not carry

Max(a, b) == IF a >= b THEN a ELSE b

\* ------------------------------------------------------------- the schema
\* A document of the Interview collection that does not exist (findOne: null).
NoDoc ==
    [user |-> "", job |-> "", scheduledAt |-> NoDate, duration |-> 0,
     status |-> "none", notes |-> NoNotes, startedAt |-> NoDate,
     completedAt |-> NoDate]

\* new Interview({user, job, scheduledAt, duration, type}) with the schema's
\* defaults (type and meetingRoom never change and are left out).
NewInterview(u, j, at, d) ==
    [user |-> u, job |-> j, scheduledAt |-> at, duration |-> d,
     status |-> "scheduled", notes |-> NoNotes, startedAt |-> NoDate,
     completedAt |-> NoDate]

Statuses == {"scheduled", "in-progress", "completed", "cancelled", "expired"}

VARIABLES
    clock,          \* the current instant, what new Date() returns
    interviews,     \* the Interview collection: id -> document
    nextId,         \* the next _id the store assigns
    applications,   \* the Job collection: job id -> users with an application
    pc,             \* per request slot: where its handler stands
    loc,            \* per request slot: the handler's local variables
    out             \* the response the last step sent, if it sent one

vars == <<clock, interviews, nextId, applications, pc, loc, out>>

\* ------------------------------------------------------ derived (virtuals)
\* scheduledAt.getTime() + duration * 60 * 1000
EndTime(doc) == doc.scheduledAt + doc.duration * MsPerMinute

\* (a slip: >= for >, the end of the slot taken as past it)
isExpiredAtEnd(doc, now) == now >= EndTime(doc) /\ doc.status = "scheduled"

isExpired(doc, now) == now > EndTime(doc) /\ doc.status = "scheduled"

timeUntilStart(doc, now) == Max(0, doc.scheduledAt - now)

\* (a slip: the remaining time counted from scheduledAt, not from startedAt)
timeRemainingFromSlot(doc, now) ==
    IF doc.status # "in-progress" \/ doc.startedAt = NoDate THEN 0
    ELSE Max(0, doc.scheduledAt + doc.duration * MsPerMinute - now)

timeRemaining(doc, now) ==
    IF doc.status # "in-progress" \/ doc.startedAt = NoDate THEN 0
    ELSE Max(0, doc.startedAt + doc.duration * MsPerMinute - now)

\* ------------------------------------------------------ checkTimeConflict
\* The three $or branches of the query, for one stored document.
\* (a slip: $gte for $gt on the end of the stored slot)
StartsDuringOrAbuts(doc, startTime, endTime) ==
    doc.scheduledAt <= startTime /\ EndTime(doc) >= startTime

StartsDuring(doc, startTime, endTime) ==
    doc.scheduledAt <= startTime /\ EndTime(doc) > startTime

EndsDuring(doc, startTime, endTime) ==
    doc.scheduledAt < endTime /\ EndTime(doc) > endTime

Contains(doc, startTime, endTime) ==
    doc.scheduledAt >= startTime /\ EndTime(doc) <= endTime

ConflictQuery(doc, startTime, endTime) ==
    /\ doc.status \in {"scheduled", "in-progress"}
    /\ \/ StartsDuring(doc, startTime, endTime)
       \/ EndsDuring(doc, startTime, endTime)
       \/ Contains(doc, startTime, endTime)

\* The documents the query matches in store s; findOne returns one of them,
\* or null when there is none.
checkTimeConflict(s, scheduledAt, duration, excludeId) ==
    LET startTime == scheduledAt
        endTime == startTime + duration * MsPerMinute
    IN  {i \in DOMAIN s :
            /\ ConflictQuery(s[i], startTime, endTime)
            /\ (excludeId # NoId => i # excludeId)}

\* ----------------------------------------------- cleanupExpiredInterviews
\* The filter of the updateMany, for one stored document.
\* (a slip: the status condition left out of the filter)
ExpiredFilterAnyStatus(doc, now) == EndTime(doc) < now

\* (a slip: the filter takes the status list of the conflict query)
ExpiredFilterActive(doc, now) ==
    doc.status \in {"scheduled", "in-progress"} /\ EndTime(doc) < now

\* (a slip: the operands of $lt in the other order)
ExpiredFilterReversed(doc, now) ==
    doc.status = "scheduled" /\ now < EndTime(doc)

ExpiredFilter(doc, now) ==
    doc.status = "scheduled" /\ EndTime(doc) < now

\* One document's conditional update, and whether it modified the document.
Matches(s, i, now) == i \in DOMAIN s /\ ExpiredFilter(s[i], now)

ExpireOne(s, i, now) ==
    IF Matches(s, i, now) THEN [s EXCEPT ![i].status = "expired"] ELSE s

\* The updateMany over the documents i, i+1, ... with no other operation in
\* between: the store it leaves and the modifiedCount it reports.
RECURSIVE updateManyFrom(_, _, _)
updateManyFrom(s, i, now) ==
    IF i > MaxInterviews THEN [store |-> s, modifiedCount |-> 0]
    ELSE LET rest == updateManyFrom(ExpireOne(s, i, now), i + 1, now)
         IN  [store |-> rest.store,
              modifiedCount |-> rest.modifiedCount + IF Matches(s, i, now) THEN 1 ELSE 0]

cleanupExpiredInterviews(s, now) == updateManyFrom(s, 1, now)

\* ------------------------------------------------------ the routes' guards
\* job.applications.some((app) => app.user.toString() === userId)
hasApplied(apps, userId) == userId \in apps

\* (a slip: < for <=, the present instant taken as future)
NotInFutureStrict(scheduledDate, now) == scheduledDate < now

\* scheduledDate <= new Date()
NotInFuture(scheduledDate, now) == scheduledDate <= now

\* (a slip: the status literal misspelt, so that it matches no status)
CannotCancelMisspelt(status) == status = "complete"

\* interview.status === "completed"
CannotCancel(status) == status = "completed"

\* timeUntilStart > 0
NotStartedYet(untilStart) == untilStart > 0

\* (a slip: < for <=, the end of the window taken as inside it)
TimeExpiredStrict(untilEnd) == untilEnd < 0

\* timeUntilEnd <= 0
TimeExpired(untilEnd) == untilEnd <= 0

\* (a slip: only an interview already in progress is refused)
CannotStartInProgressOnly(status) == status = "in-progress"

\* interview.status !== "scheduled"
CannotStart(status) == status # "scheduled"

\* (a slip: only an interview not yet started is refused)
NotInProgressScheduledOnly(status) == status = "scheduled"

\* interview.status !== "in-progress"
NotInProgress(status) == status # "in-progress"

\* (a slip: the test is for null only, so that empty notes are written)
TruthyNotNull(notes) == notes # NoNotes

\* if (notes): null, undefined and the empty string are falsy
Truthy(notes) == notes \notin {NoNotes, ""}

\* ------------------------------------------------------------- responses
NoResp ==
    [req |-> 0, op |-> "none", user |-> "", id |-> NoId, job |-> "",
     code |-> 0, message |-> "", info |-> 0, now |-> NoDate, list |-> <<>>]

\* A response: the request it answers (slot, operation, caller, :id, jobId),
\* the HTTP status, the message and the number the body carries if any.
Response(r, op, u, i, j, code, message, info) ==
    [req |-> r, op |-> op, user |-> u, id |-> i, job |-> j,
     code |-> code, message |-> message, info |-> info, now |-> NoDate,
     list |-> <<>>]

\* What the body of a read shows of an interview: its stored fields and the
\* virtuals computed at the instant the body is built.
View(i, doc, now) ==
    [id |-> i, job |-> doc.job, scheduledAt |-> doc.scheduledAt,
     duration |-> doc.duration, status |-> doc.status,
     timeUntilStart |-> timeUntilStart(doc, now),
     timeRemaining |-> timeRemaining(doc, now),
     isExpired |-> isExpired(doc, now),
     startedAt |-> doc.startedAt, completedAt |-> doc.completedAt]

NoLoc ==
    [user |-> "", id |-> NoId, job |-> "", scheduledAt |-> NoDate,
     duration |-> 0, notes |-> NoNotes, hasApplied |-> FALSE, now |-> NoDate,
     doc |-> NoDoc, count |-> 0]

\* The handler of slot r sends its response and ends.
Reply(r, response) ==
    /\ pc' = [pc EXCEPT ![r] = "idle"]
    /\ loc' = [loc EXCEPT ![r] = NoLoc]
    /\ out' = response

\* The handler of slot r goes on to its next await.
Goto(r, label, locals) ==
    /\ pc' = [pc EXCEPT ![r] = label]
    /\ loc' = [loc EXCEPT ![r] = locals]
    /\ out' = NoResp

\* (a slip: an interview is found only while its owner's application stands)
findOneIfApplied(id, userId) ==
    IF /\ id \in DOMAIN interviews /\ interviews[id].user = userId
       /\ userId \in applications[interviews[id].job]
    THEN interviews[id] ELSE NoDoc

\* (a slip: the lookup by _id alone, the user left out of the filter)
findOneAnyUser(id, userId) ==
    IF id \in DOMAIN interviews THEN interviews[id] ELSE NoDoc

\* Interview.findOne({_id: id, user: userId})
findOne(id, userId) ==
    IF id \in DOMAIN interviews /\ interviews[id].user = userId
    THEN interviews[id] ELSE NoDoc

\* ------------------------------------------------------------------- Init
InitWith(apps) ==
    /\ clock = 0
    /\ interviews = <<>>
    /\ nextId = 1
    /\ applications = apps
    /\ pc = [r \in Reqs |-> "idle"]
    /\ loc = [r \in Reqs |-> NoLoc]
    /\ out = NoResp

\* The clock advances.
Tick ==
    /\ clock < MaxTime * MsPerMinute
    /\ clock' = clock + MsPerMinute
    /\ UNCHANGED <<interviews, nextId, applications, pc, loc, out>>

\* ---------------------------------------------------------- POST /schedule
SchedulePcs == {"schedule_validate", "schedule_scan", "schedule_insert"}


\* Body fields, the required-fields check and Job.findById.
ScheduleFindJob(r, u, j, at, d) ==
    /\ pc[r] = "idle"
    /\ nextId + Cardinality({q \in Reqs : pc[q] \in SchedulePcs}) <= MaxInterviews
    /\ IF j = Missing \/ at = NoDate
       THEN Reply(r, Response(r, "schedule", u, NoId, j, 400,
                "Job ID and scheduled time are required", 0))
       ELSE IF j \notin DOMAIN applications
       THEN Reply(r, Response(r, "schedule", u, NoId, j, 404, "Job not found", 0))
       ELSE Goto(r, "schedule_validate",
                [NoLoc EXCEPT !.user = u, !.job = j, !.scheduledAt = at,
                              !.duration = IF d = NoDate THEN DefaultDuration ELSE d,
                              !.hasApplied = hasApplied(applications[j], u)])
    /\ UNCHANGED <<clock, interviews, nextId, applications>>

\* (a slip: the future-time check placed before the application check)
ScheduleValidateTimeFirst(r) ==
    /\ pc[r] = "schedule_validate"
    /\ IF NotInFuture(loc[r].scheduledAt, clock)
       THEN Reply(r, Response(r, "schedule", loc[r].user, NoId, loc[r].job, 400,
                "Interview must be scheduled for a future time", 0))
       ELSE IF ~loc[r].hasApplied
       THEN Reply(r, Response(r, "schedule", loc[r].user, NoId, loc[r].job, 400,
                "You must apply to this job before scheduling an interview", 0))
       ELSE Goto(r, "schedule_scan", loc[r])
    /\ UNCHANGED <<clock, interviews, nextId, applications>>

\* hasApplied on the job loaded, then the future-time check.
ScheduleValidate(r) ==
    /\ pc[r] = "schedule_validate"
    /\ IF ~loc[r].hasApplied
       THEN Reply(r, Response(r, "schedule", loc[r].user, NoId, loc[r].job, 400,
                "You must apply to this job before scheduling an interview", 0))
       ELSE IF NotInFuture(loc[r].scheduledAt, clock)
       THEN Reply(r, Response(r, "schedule", loc[r].user, NoId, loc[r].job, 400,
                "Interview must be scheduled for a future time", 0))
       ELSE Goto(r, "schedule_scan", loc[r])
    /\ UNCHANGED <<clock, interviews, nextId, applications>>

\* Interview.checkTimeConflict(scheduledDate, duration): the scan.
\* (a slip: the scan looks only at interviews for the job of the request)
ScheduleScanSameJob(r) ==
    /\ pc[r] = "schedule_scan"
    /\ LET sameJob == {i \in DOMAIN interviews : interviews[i].job = loc[r].job}
       IN  IF checkTimeConflict([i \in sameJob |-> interviews[i]],
                                loc[r].scheduledAt, loc[r].duration, NoId) # {}
           THEN Reply(r, Response(r, "schedule", loc[r].user, NoId, loc[r].job, 400,
                    "Time slot is already booked. Please choose a different time.", 0))
           ELSE Goto(r, "schedule_insert", loc[r])
    /\ UNCHANGED <<clock, interviews, nextId, applications>>

\* (a slip: the conflict query scoped to the interviews of the caller)
ScheduleScanOwnOnly(r) ==
    /\ pc[r] = "schedule_scan"
    /\ IF \E i \in checkTimeConflict(interviews, loc[r].scheduledAt, loc[r].duration, NoId) :
             interviews[i].user = loc[r].user
       THEN Reply(r, Response(r, "schedule", loc[r].user, NoId, loc[r].job, 400,
                "Time slot is already booked. Please choose a different time.", 0))
       ELSE Goto(r, "schedule_insert", loc[r])
    /\ UNCHANGED <<clock, interviews, nextId, applications>>

ScheduleScan(r) ==
    /\ pc[r] = "schedule_scan"
    /\ IF checkTimeConflict(interviews, loc[r].scheduledAt, loc[r].duration, NoId) # {}
       THEN Reply(r, Response(r, "schedule", loc[r].user, NoId, loc[r].job, 400,
                "Time slot is already booked. Please choose a different time.", 0))
       ELSE Goto(r, "schedule_insert", loc[r])
    /\ UNCHANGED <<clock, interviews, nextId, applications>>

\* interview.save(): the insert, and the 201 response.
ScheduleInsert(r) ==
    /\ pc[r] = "schedule_insert"
    /\ nextId <= MaxInterviews
    /\ LET doc == NewInterview(loc[r].user, loc[r].job, loc[r].scheduledAt,
                               loc[r].duration)
       IN  /\ interviews' = interviews @@ (nextId :> doc)
           /\ Reply(r, Response(r, "schedule", loc[r].user, nextId, loc[r].job, 201,
                                "Interview scheduled successfully",
                                timeUntilStart(doc, clock)))
    /\ nextId' = nextId + 1
    /\ UNCHANGED <<clock, applications>>

\* ------------------------------------------------------------- DELETE /:id
\* findOne scoped to the caller, and the completed check.
CancelFind(r, u, i) ==
    /\ pc[r] = "idle"
    /\ LET doc == findOne(i, u)
       IN  IF doc = NoDoc
           THEN Reply(r, Response(r, "cancel", u, i, "", 404, "Interview not found", 0))
           ELSE IF CannotCancel(doc.status)
           THEN Reply(r, Response(r, "cancel", u, i, "", 400,
                    "Cannot cancel completed interview", 0))
           ELSE Goto(r, "cancel_delete", [NoLoc EXCEPT !.user = u, !.id = i, !.doc = doc])
    /\ UNCHANGED <<clock, interviews, nextId, applications>>

\* (a slip: the handler sets status cancelled and keeps the record)
CancelDeleteTags(r) ==
    /\ pc[r] = "cancel_delete"
    /\ interviews' = IF loc[r].id \in DOMAIN interviews
                     THEN [interviews EXCEPT ![loc[r].id].status = "cancelled"]
                     ELSE interviews
    /\ Reply(r, Response(r, "cancel", loc[r].user, loc[r].id, "", 200,
                         "Interview cancelled successfully", 0))
    /\ UNCHANGED <<clock, nextId, applications>>

\* (a slip: the handler answers 200 without the findByIdAndDelete)
CancelDeleteNoop(r) ==
    /\ pc[r] = "cancel_delete"
    /\ interviews' = interviews
    /\ Reply(r, Response(r, "cancel", loc[r].user, loc[r].id, "", 200,
                         "Interview cancelled successfully", 0))
    /\ UNCHANGED <<clock, nextId, applications>>

\* Interview.findByIdAndDelete(interviewId)
CancelDelete(r) ==
    /\ pc[r] = "cancel_delete"
    /\ interviews' = [k \in DOMAIN interviews \ {loc[r].id} |-> interviews[k]]
    /\ Reply(r, Response(r, "cancel", loc[r].user, loc[r].id, "", 200,
                         "Interview cancelled successfully", 0))
    /\ UNCHANGED <<clock, nextId, applications>>

\* ---------------------------------------------------------- POST /:id/start
StartFind(r, u, i) ==
    /\ pc[r] = "idle"
    /\ LET doc == findOne(i, u)
       IN  IF doc = NoDoc
           THEN Reply(r, Response(r, "start", u, i, "", 404, "Interview not found", 0))
           ELSE Goto(r, "start_guard", [NoLoc EXCEPT !.user = u, !.id = i, !.doc = doc])
    /\ UNCHANGED <<clock, interviews, nextId, applications>>

\* (a slip: the handler marks an interview it finds past its window as
\* expired while rejecting the start)
StartGuardExpiresOnTouch(r) ==
    /\ pc[r] = "start_guard"
    /\ LET doc == loc[r].doc
           now == clock
           untilStart == doc.scheduledAt - now
           untilEnd == doc.scheduledAt + doc.duration * MsPerMinute - now
       IN  IF NotStartedYet(untilStart)
           THEN /\ interviews' = interviews
                /\ Reply(r, Response(r, "start", loc[r].user, loc[r].id, "", 400,
                                     "Interview has not started yet", untilStart))
           ELSE IF TimeExpired(untilEnd)
           THEN /\ interviews' = IF loc[r].id \in DOMAIN interviews
                                 THEN [interviews EXCEPT ![loc[r].id].status = "expired"]
                                 ELSE interviews
                /\ Reply(r, Response(r, "start", loc[r].user, loc[r].id, "", 400,
                                     "Interview time has expired", 0))
           ELSE IF CannotStart(doc.status)
           THEN /\ interviews' = interviews
                /\ Reply(r, Response(r, "start", loc[r].user, loc[r].id, "", 400,
                                     "Interview cannot be started", 0))
           ELSE /\ interviews' = interviews
                /\ Goto(r, "start_save",
                        [loc[r] EXCEPT !.now = now,
                                       !.doc = [doc EXCEPT !.status = "in-progress",
                                                           !.startedAt = now]])
    /\ UNCHANGED <<clock, nextId, applications>>

\* now = new Date() and the three guards; on success the document loaded is
\* changed in memory and save() is issued.
StartGuard(r) ==
    /\ pc[r] = "start_guard"
    /\ LET doc == loc[r].doc
           now == clock
           untilStart == doc.scheduledAt - now
           untilEnd == doc.scheduledAt + doc.duration * MsPerMinute - now
       IN  IF NotStartedYet(untilStart)
           THEN Reply(r, Response(r, "start", loc[r].user, loc[r].id, "", 400,
                                  "Interview has not started yet", untilStart))
           ELSE IF TimeExpired(untilEnd)
           THEN Reply(r, Response(r, "start", loc[r].user, loc[r].id, "", 400,
                                  "Interview time has expired", 0))
           ELSE IF CannotStart(doc.status)
           THEN Reply(r, Response(r, "start", loc[r].user, loc[r].id, "", 400,
                                  "Interview cannot be started", 0))
           ELSE Goto(r, "start_save",
                     [loc[r] EXCEPT !.now = now,
                                    !.doc = [doc EXCEPT !.status = "in-progress",
                                                        !.startedAt = now]])
    /\ UNCHANGED <<clock, interviews, nextId, applications>>

\* interview.save(): the modified paths are written to the document with this
\* _id, whatever its stored status; a document no longer there makes save()
\* throw, which the handler answers with 500.
\* (a slip: the start also moves the slot to the instant of the start)
StartSaveMovesSlot(r) ==
    /\ pc[r] = "start_save"
    /\ LET i == loc[r].id
       IN  IF i \in DOMAIN interviews
           THEN /\ interviews' = [interviews EXCEPT
                       ![i].status = "in-progress", ![i].startedAt = loc[r].now,
                       ![i].scheduledAt = loc[r].now]
                /\ Reply(r, Response(r, "start", loc[r].user, i, "", 200,
                                     "Interview started successfully",
                                     timeRemaining(loc[r].doc, clock)))
           ELSE /\ interviews' = interviews
                /\ Reply(r, Response(r, "start", loc[r].user, i, "", 500,
                                     "Failed to start interview", 0))
    /\ UNCHANGED <<clock, nextId, applications>>

StartSave(r) ==
    /\ pc[r] = "start_save"
    /\ LET i == loc[r].id
       IN  IF i \in DOMAIN interviews
           THEN /\ interviews' = [interviews EXCEPT
                       ![i].status = "in-progress", ![i].startedAt = loc[r].now]
                /\ Reply(r, Response(r, "start", loc[r].user, i, "", 200,
                                     "Interview started successfully",
                                     timeRemaining(loc[r].doc, clock)))
           ELSE /\ interviews' = interviews
                /\ Reply(r, Response(r, "start", loc[r].user, i, "", 500,
                                     "Failed to start interview", 0))
    /\ UNCHANGED <<clock, nextId, applications>>

\* ------------------------------------------------------- POST /:id/complete
CompleteFind(r, u, i, notes) ==
    /\ pc[r] = "idle"
    /\ LET doc == findOne(i, u)
       IN  IF doc = NoDoc
           THEN Reply(r, Response(r, "complete", u, i, "", 404, "Interview not found", 0))
           ELSE Goto(r, "complete_guard",
                     [NoLoc EXCEPT !.user = u, !.id = i, !.doc = doc, !.notes = notes])
    /\ UNCHANGED <<clock, interviews, nextId, applications>>

\* The status guard; completedAt = new Date(); notes only when truthy.
CompleteGuard(r) ==
    /\ pc[r] = "complete_guard"
    /\ IF NotInProgress(loc[r].doc.status)
       THEN Reply(r, Response(r, "complete", loc[r].user, loc[r].id, "", 400,
                              "Interview is not in progress", 0))
       ELSE Goto(r, "complete_save", [loc[r] EXCEPT !.now = clock])
    /\ UNCHANGED <<clock, interviews, nextId, applications>>

CompleteSave(r) ==
    /\ pc[r] = "complete_save"
    /\ LET i == loc[r].id
           notes == loc[r].notes
       IN  IF i \in DOMAIN interviews
           THEN /\ interviews' = [interviews EXCEPT
                       ![i].status = "completed",
                       ![i].completedAt = loc[r].now,
                       ![i].notes = IF Truthy(notes) THEN notes ELSE @]
                /\ Reply(r, Response(r, "complete", loc[r].user, i, "", 200,
                                     "Interview completed successfully", 0))
           ELSE /\ interviews' = interviews
                /\ Reply(r, Response(r, "complete", loc[r].user, i, "", 500,
                                     "Failed to complete interview", 0))
    /\ UNCHANGED <<clock, nextId, applications>>

\* ------------------------------------------------------------ POST /cleanup
\* cleanupExpiredInterviews: now = new Date(), then the updateMany, which the
\* store applies one document at a time, each a conditional update.
CleanupBegin(r) ==
    /\ pc[r] = "idle"
    /\ Goto(r, "cleanup_update", [NoLoc EXCEPT !.now = clock, !.id = 1])
    /\ UNCHANGED <<clock, interviews, nextId, applications>>

\* (a slip: the count taken over the overdue documents the sweep visits, not
\* over those its update modified)
CleanupUpdateCountsVisited(r) ==
    /\ pc[r] = "cleanup_update"
    /\ LET i == loc[r].id
           n == loc[r].count +
                (IF i \in DOMAIN interviews
                    /\ ExpiredFilterAnyStatus(interviews[i], loc[r].now)
                 THEN 1 ELSE 0)
       IN  /\ interviews' = ExpireOne(interviews, i, loc[r].now)
           /\ IF i < MaxInterviews
              THEN Goto(r, "cleanup_update", [loc[r] EXCEPT !.id = i + 1, !.count = n])
              ELSE Reply(r, [Response(r, "cleanup", "", NoId, "", 200,
                                      "Cleaned up expired interviews", n)
                                EXCEPT !.now = loc[r].now])
    /\ UNCHANGED <<clock, nextId, applications>>

CleanupUpdate(r) ==
    /\ pc[r] = "cleanup_update"
    /\ LET i == loc[r].id
           n == loc[r].count + (IF Matches(interviews, i, loc[r].now) THEN 1 ELSE 0)
       IN  /\ interviews' = ExpireOne(interviews, i, loc[r].now)
           /\ IF i < MaxInterviews
              THEN Goto(r, "cleanup_update", [loc[r] EXCEPT !.id = i + 1, !.count = n])
              ELSE Reply(r, [Response(r, "cleanup", "", NoId, "", 200,
                                      "Cleaned up expired interviews", n)
                                EXCEPT !.now = loc[r].now])
    /\ UNCHANGED <<clock, nextId, applications>>

\* ---------------------------------------------------------------- GET /:id
\* findOne scoped to the caller; the body shows the document with its virtuals.
Get(r, u, i) ==
    /\ pc[r] = "idle"
    /\ LET doc == findOne(i, u)
       IN  IF doc = NoDoc
           THEN Reply(r, Response(r, "get", u, i, "", 404, "Interview not found", 0))
           ELSE Reply(r, [Response(r, "get", u, i, "", 200, "", 0)
                             EXCEPT !.now = clock, !.list = <<View(i, doc, clock)>>])
    /\ UNCHANGED <<clock, interviews, nextId, applications>>

\* ------------------------------------------------------- GET /my-interviews
\* cleanupExpiredInterviews first: now = new Date(), then its updateMany.
ListBegin(r, u) ==
    /\ pc[r] = "idle"
    /\ Goto(r, "list_update", [NoLoc EXCEPT !.user = u, !.now = clock, !.id = 1])
    /\ UNCHANGED <<clock, interviews, nextId, applications>>

\* (a slip: the sweep of the list scoped to the caller's interviews)
ListUpdateOwnOnly(r) ==
    /\ pc[r] = "list_update"
    /\ LET i == loc[r].id
       IN  /\ interviews' = IF i \in DOMAIN interviews
                                /\ interviews[i].user = loc[r].user
                             THEN ExpireOne(interviews, i, loc[r].now)
                             ELSE interviews
           /\ IF i < MaxInterviews
              THEN Goto(r, "list_update", [loc[r] EXCEPT !.id = i + 1])
              ELSE Goto(r, "list_find", loc[r])
    /\ UNCHANGED <<clock, nextId, applications>>

ListUpdate(r) ==
    /\ pc[r] = "list_update"
    /\ LET i == loc[r].id
       IN  /\ interviews' = ExpireOne(interviews, i, loc[r].now)
           /\ IF i < MaxInterviews
              THEN Goto(r, "list_update", [loc[r] EXCEPT !.id = i + 1])
              ELSE Goto(r, "list_find", loc[r])
    /\ UNCHANGED <<clock, nextId, applications>>

\* (a slip: the find asks for status scheduled only)
ListFilterScheduledOnly(doc, userId) == doc.user = userId /\ doc.status = "scheduled"

\* (a slip: the status condition left out of the find)
ListFilterAnyStatus(doc, userId) == doc.user = userId

\* find({user, status: {$in: [scheduled, in-progress]}})
ListFilter(doc, userId) ==
    doc.user = userId /\ doc.status \in {"scheduled", "in-progress"}

\* sort({scheduledAt: 1}): the ids in an order of ascending scheduledAt; among
\* equal scheduledAt the store may return either order.
Sorted(s, ids) ==
    {q \in [1 .. Cardinality(ids) -> ids] :
        /\ \A a, b \in DOMAIN q : a # b => q[a] # q[b]
        /\ \A a, b \in DOMAIN q : a < b => s[q[a]].scheduledAt <= s[q[b]].scheduledAt}

ListFind(r) ==
    /\ pc[r] = "list_find"
    /\ \E q \in Sorted(interviews,
                       {i \in DOMAIN interviews : ListFilter(interviews[i], loc[r].user)}) :
          Reply(r, [Response(r, "list", loc[r].user, NoId, "", 200, "", 0)
                       EXCEPT !.now = clock,
                              !.list = [k \in DOMAIN q |-> View(q[k], interviews[q[k]], clock)]])
    /\ UNCHANGED <<clock, interviews, nextId, applications>>

\* ------------------------------------------------------------------- Next
\* The steps of the handler in slot r, its requests drawn from callers U, job
\* ids J, scheduledAt values T, durations D and notes N.
Handler(r, U, J, T, D, N) ==
    \/ \E u \in U, j \in J, at \in T, d \in D :
            ScheduleFindJob(r, u, j, at, d)
    \/ ScheduleValidate(r)
    \/ ScheduleScan(r)
    \/ ScheduleInsert(r)
    \/ \E u \in U, i \in Ids : CancelFind(r, u, i)
    \/ CancelDelete(r)
    \/ \E u \in U, i \in Ids : StartFind(r, u, i)
    \/ StartGuard(r)
    \/ StartSave(r)
    \/ \E u \in U, i \in Ids, notes \in N : CompleteFind(r, u, i, notes)
    \/ CompleteGuard(r)
    \/ CompleteSave(r)
    \/ CleanupBegin(r)
    \/ CleanupUpdate(r)

\* The steps of the two reads in slot r, their requests drawn from callers U.
Reader(r, U) ==
    \/ \E u \in U, i \in Ids : Get(r, u, i)
    \/ \E u \in U : ListBegin(r, u)
    \/ ListUpdate(r)
    \/ ListFind(r)

\* Job j1 exists and u1 has applied to it; u2 has applied to nothing.
Init == InitWith([j \in {"j1"} |-> {"u1"}])

\* Concurrent requests: two handlers in flight, their steps interleaved in
\* every order.  Every booking asks for the slot that starts at minute 1 and
\* lasts one minute.
Next ==
    \/ Tick
    \/ \E r \in Reqs : Handler(r, {"u1"}, {"j1"}, {MsPerMinute}, {1}, {NoNotes})

Spec == Init /\ [][Next]_vars

\* Requests one at a time: one slot, each request answered before the next
\* begins, from either user and with every kind of request body.
SeqJobs == {"j1", NoJob, Missing}
SeqTimes == {0, MsPerMinute, 2 * MsPerMinute, NoDate}
SeqDurations == {0, 1, 2, NoDate}
SeqNotes == {NoNotes, "", "a"}

NextSeq ==
    \/ Tick
    \/ \E r \in SeqReqs : Handler(r, Users, SeqJobs, SeqTimes, SeqDurations, SeqNotes)
    \/ \E r \in SeqReqs : Reader(r, Users)

SpecSeq == Init /\ [][NextSeq]_vars

\* The sweep invoked again and again while time passes: the owner's requests
\* come one at a time in one slot, at any pace or not at all, and a second
\* slot is kept for sweep requests, which are served whenever they come.
SweepReqs == Reqs \ SeqReqs

Sweep == \E r \in SweepReqs : CleanupBegin(r) \/ CleanupUpdate(r)

NextLive ==
    \/ Tick
    \/ \E r \in SeqReqs : Handler(r, {"u1"}, {"j1"}, {MsPerMinute}, {1}, {NoNotes})
    \/ Sweep

SpecLive == Init /\ [][NextLive]_vars /\ WF_vars(Tick) /\ WF_vars(Sweep)

\* DELETE /jobs/:id/applicants/:appId: the application of user u is pulled
\* from job j and the job saved.  No interview is read or written.
RemoveApplicant(j, u) ==
    /\ j \in DOMAIN applications
    /\ u \in applications[j]
    /\ applications' = [applications EXCEPT ![j] = @ \ {u}]
    /\ out' = NoResp
    /\ UNCHANGED <<clock, interviews, nextId, pc, loc>>

\* Requests one at a time by a candidate who has applied, while the
\* application may be removed at any point.
NextApps ==
    \/ Tick
    \/ \E r \in SeqReqs : Handler(r, {"u1"}, {"j1"}, {MsPerMinute}, {1}, {NoNotes})
    \/ \E r \in SeqReqs : Reader(r, {"u1"})
    \/ \E j \in {"j1"}, u \in Users : RemoveApplicant(j, u)

SpecApps == Init /\ [][NextApps]_vars

\* One candidate with applications on two jobs, requests one at a time, for
\* slots that overlap, abut or lie apart.
JobsJobs == {"j1", "j2"}
JobsTimes == {MsPerMinute, 2 * MsPerMinute}
JobsDurations == {1, 2}

InitJobs == InitWith([j \in JobsJobs |-> {"u1"}])

NextJobs ==
    \/ Tick
    \/ \E r \in SeqReqs :
          Handler(r, {"u1"}, JobsJobs, JobsTimes, JobsDurations, {NoNotes})

SpecJobs == InitJobs /\ [][NextJobs]_vars

\* Two candidates with applications on the same job, requests one at a time,
\* for slots that overlap, abut or lie apart.
InitPool == InitWith([j \in {"j1"} |-> Users])

NextPool ==
    \/ Tick
    \/ \E r \in SeqReqs :
          Handler(r, Users, {"j1"}, JobsTimes, JobsDurations, {NoNotes})

SpecPool == InitPool /\ [][NextPool]_vars

\* Candidate u1 books, starts, completes and cancels while the only reads, and
\* so the only sweeps, are those of u2, who has applied to nothing and holds
\* no interview; requests one at a time.
NextList ==
    \/ Tick
    \/ \E r \in SeqReqs :
          \/ \E at \in JobsTimes : ScheduleFindJob(r, "u1", "j1", at, 1)
          \/ ScheduleValidate(r)
          \/ ScheduleScan(r)
          \/ ScheduleInsert(r)
          \/ \E i \in Ids : CancelFind(r, "u1", i)
          \/ CancelDelete(r)
          \/ \E i \in Ids : StartFind(r, "u1", i)
          \/ StartGuard(r)
          \/ StartSave(r)
          \/ \E i \in Ids : CompleteFind(r, "u1", i, NoNotes)
          \/ CompleteGuard(r)
          \/ CompleteSave(r)
    \/ \E r \in SeqReqs : Reader(r, {"u2"})

SpecList == Init /\ [][NextList]_vars

\* Requests one at a time whose duration is any number the body may carry:
\* POST /schedule passes it on unchecked, so a negative one is stored too.
SignedDurations == {-2, 1}

NextSigned ==
    \/ Tick
    \/ \E r \in SeqReqs :
          Handler(r, {"u1"}, {"j1"}, JobsTimes, SignedDurations, {NoNotes})

SpecSigned == Init /\ [][NextSigned]_vars

\* (a slip: the error of the scan caught and taken for "no conflict")
ScheduleScanErrorFailOpen(r) ==
    /\ pc[r] = "schedule_scan"
    /\ Goto(r, "schedule_insert", loc[r])
    /\ UNCHANGED <<clock, interviews, nextId, applications>>

\* The findOne of checkTimeConflict rejects (the store is down or times out):
\* the await throws into the handler's catch, which answers 500.
ScheduleScanError(r) ==
    /\ pc[r] = "schedule_scan"
    /\ Reply(r, Response(r, "schedule", loc[r].user, NoId, loc[r].job, 500,
                         "Failed to schedule interview", 0))
    /\ UNCHANGED <<clock, interviews, nextId, applications>>

\* Requests one at a time, for slots that overlap or lie apart, against a
\* store whose conflict scan may fail at any request.
NextFault ==
    \/ Tick
    \/ \E r \in SeqReqs :
          Handler(r, {"u1"}, {"j1"}, JobsTimes, JobsDurations, {NoNotes})
    \/ \E r \in SeqReqs : ScheduleScanError(r)

SpecFault == Init /\ [][NextFault]_vars

\* checkTimeConflict as a function of its inputs: the store holds up to two
\* interviews of any start, duration and status, and a schedule request of
\* any start and duration stands before its scan.
ConflictDurations == {0, 1, 2}

ConflictDocs ==
    {[NewInterview("u1", "j1", at, d) EXCEPT
          !.status = st,
          !.startedAt = IF st \in {"in-progress", "completed"} THEN at ELSE NoDate,
          !.completedAt = IF st = "completed" THEN at ELSE NoDate] :
        at \in Instants, d \in ConflictDurations,
        st \in {"scheduled", "in-progress", "completed", "expired"}}

ConflictStores ==
    {<<>>} \cup {1 :> a : a \in ConflictDocs}
           \cup {(1 :> a) @@ (2 :> b) : a \in ConflictDocs, b \in ConflictDocs}

InitConflict ==
    /\ clock = 0
    /\ interviews \in ConflictStores
    /\ nextId = Cardinality(DOMAIN interviews) + 1
    /\ applications = [j \in {"j1"} |-> {"u1"}]
    /\ pc = [r \in Reqs |-> IF r \in SeqReqs THEN "schedule_scan" ELSE "idle"]
    /\ \E at \in Instants, d \in ConflictDurations :
            loc = [r \in Reqs |->
                    IF r \in SeqReqs
                    THEN [NoLoc EXCEPT !.user = "u1", !.job = "j1", !.scheduledAt = at,
                                       !.duration = d, !.hasApplied = TRUE]
                    ELSE NoLoc]
    /\ out = NoResp

NextConflict == \E r \in SeqReqs : ScheduleScan(r)

SpecConflict == InitConflict /\ [][NextConflict]_vars

\* ----------------------------------------------------------------- claims
\* The vocabulary of the claims: the slot of an interview is the half-open
\* interval [scheduledAt, scheduledAt + duration), two slots overlap when each
\* starts before the other ends, and a booking is active while it is scheduled
\* or in progress.
Overlap(s1, e1, s2, e2) == s1 < e2 /\ s2 < e1

SlotsOverlap(a, b) == Overlap(a.scheduledAt, EndTime(a), b.scheduledAt, EndTime(b))

Active(doc) == doc.status \in {"scheduled", "in-progress"}

\* Slot r sends a response in this step (a step of a handler that sends none
\* clears out, and the clock stands still while a handler steps).
Replies(r) == out' # NoResp /\ out'.req = r /\ clock' = clock

\* Slot r, standing at label, takes its step.
Steps(r, label) == pc[r] = label /\ (pc'[r] # pc[r] \/ loc'[r] # loc[r])

\* C1: after any interleaving of concurrent schedule requests, no candidate
\* holds two active interviews whose slots overlap.
C1_NoDoubleBooking ==
    \A i, j \in DOMAIN interviews :
        (/\ i # j
         /\ interviews[i].user = interviews[j].user
         /\ Active(interviews[i])
         /\ Active(interviews[j]))
        => ~SlotsOverlap(interviews[i], interviews[j])

\* C2: with all durations positive, the scan of a schedule request reports a
\* conflict if and only if some active interview's slot overlaps the requested
\* slot (each starts before the other ends); a slot that only abuts an active
\* one is not a conflict.
AllPositive(s, duration) ==
    duration > 0 /\ \A i \in DOMAIN s : s[i].duration > 0

OverlapsActive(s, scheduledAt, duration) ==
    \E i \in DOMAIN s :
        /\ Active(s[i])
        /\ Overlap(scheduledAt, scheduledAt + duration * MsPerMinute,
                   s[i].scheduledAt, EndTime(s[i]))

C2_ConflictIffOverlap ==
    [][\A r \in Reqs :
        (Steps(r, "schedule_scan") /\ AllPositive(interviews, loc[r].duration))
        => LET hit == OverlapsActive(interviews, loc[r].scheduledAt, loc[r].duration)
           IN  /\ hit <=> (Replies(r) /\ out'.code = 400)
               /\ ~hit <=> pc'[r] = "schedule_insert"]_vars

\* The scan let a request through whose slot starts exactly where an active
\* interview's slot ends.
C2_AbuttingAccepted ==
    \E r \in Reqs :
        /\ pc[r] = "schedule_insert"
        /\ AllPositive(interviews, loc[r].duration)
        /\ \E i \in DOMAIN interviews :
              Active(interviews[i]) /\ EndTime(interviews[i]) = loc[r].scheduledAt

\* C3: of the start (complete) requests on one interview exactly one reports
\* success: a start that reports success is the first to start the interview,
\* a complete that reports success is the first to complete it.
C3_OneWinner ==
    [][\A r \in Reqs :
        (Replies(r) /\ out'.code = 200 /\ out'.id \in DOMAIN interviews)
        => /\ out'.op = "start" => interviews[out'.id].startedAt = NoDate
           /\ out'.op = "complete" => interviews[out'.id].completedAt = NoDate]_vars

\* C4: for an interview the handler finds in status scheduled, start succeeds
\* if and only if scheduledAt <= now < scheduledAt + duration; before the
\* window it fails as not started yet and reports scheduledAt - now, from the
\* end of the window on it fails as expired, and a failed start changes no
\* interview.
C4_StartWindow ==
    [][\A r \in Reqs :
        /\ (Steps(r, "start_guard") /\ loc[r].doc.status = "scheduled")
           => LET doc == loc[r].doc
                  now == clock
              IN  /\ now < doc.scheduledAt
                     => /\ Replies(r) /\ out'.code = 400
                        /\ out'.message = "Interview has not started yet"
                        /\ out'.info = doc.scheduledAt - now
                        /\ interviews' = interviews
                  /\ (now >= doc.scheduledAt /\ now >= EndTime(doc))
                     => /\ Replies(r) /\ out'.code = 400
                        /\ out'.message = "Interview time has expired"
                        /\ interviews' = interviews
                  /\ (doc.scheduledAt <= now /\ now < EndTime(doc))
                     => pc'[r] = "start_save" /\ loc'[r].now = now
        /\ Steps(r, "start_save")
           => /\ Replies(r) /\ out'.code = 200
              /\ interviews[loc[r].id].scheduledAt <= loc[r].now
              /\ loc[r].now < EndTime(interviews[loc[r].id])
              /\ interviews' = [interviews EXCEPT ![loc[r].id].status = "in-progress",
                                                  ![loc[r].id].startedAt = loc[r].now]
        /\ (Replies(r) /\ out'.op = "start" /\ out'.code = 200)
           => pc[r] = "start_save"]_vars

\* A start succeeded at the very instant the slot begins.
C4_StartedOnTime ==
    /\ out.op = "start" /\ out.code = 200
    /\ interviews[out.id].status = "in-progress"
    /\ interviews[out.id].startedAt = interviews[out.id].scheduledAt

\* C5: schedule checks, in this order, that the job exists, that the caller
\* has applied to it, that scheduledAt is in the future and that no conflict
\* exists; it answers with the error of the first check that fails, and a
\* request that fails a check creates no interview.
C5_GuardOrder ==
    [][\A r \in Reqs :
        /\ (pc[r] = "idle" /\ Replies(r) /\ out'.op = "schedule" /\ out'.code = 404)
           => out'.job \notin DOMAIN applications
        /\ (pc[r] = "idle" /\ pc'[r] = "schedule_validate")
           => loc'[r].job \in DOMAIN applications
        /\ Steps(r, "schedule_validate")
           => LET applied == loc[r].user \in applications[loc[r].job]
                  future == loc[r].scheduledAt > clock
              IN  /\ ~applied
                     => /\ Replies(r) /\ out'.code = 400
                        /\ out'.message =
                             "You must apply to this job before scheduling an interview"
                  /\ (applied /\ ~future)
                     => /\ Replies(r) /\ out'.code = 400
                        /\ out'.message = "Interview must be scheduled for a future time"
                  /\ (applied /\ future) => pc'[r] = "schedule_scan"
        /\ Steps(r, "schedule_scan")
           => LET conflict == checkTimeConflict(interviews, loc[r].scheduledAt,
                                                loc[r].duration, NoId) # {}
              IN  /\ conflict
                     => /\ Replies(r) /\ out'.code = 400
                        /\ out'.message =
                             "Time slot is already booked. Please choose a different time."
                  /\ ~conflict => pc'[r] = "schedule_insert"
        /\ (Replies(r) /\ out'.op = "schedule" /\ out'.code # 201)
           => interviews' = interviews /\ nextId' = nextId
        /\ (Replies(r) /\ out'.op = "schedule" /\ out'.code = 201)
           => pc[r] = "schedule_insert"]_vars

\* A request passed the first three checks and was refused for a conflict.
C5_RefusedForConflict ==
    /\ out.op = "schedule" /\ out.code = 400
    /\ out.message = "Time slot is already booked. Please choose a different time."

\* C6: completed is terminal: once an interview is completed, no step of any
\* request changes its status or removes it.
C6_CompletedTerminal ==
    [][\A i \in DOMAIN interviews :
        interviews[i].status = "completed"
        => i \in DOMAIN interviews' /\ interviews'[i].status = "completed"]_vars

\* C7: expired is terminal: once an interview is expired, no step of any
\* request gives it another status.
C7_ExpiredTerminal ==
    [][\A i \in DOMAIN interviews :
        (interviews[i].status = "expired" /\ i \in DOMAIN interviews')
        => interviews'[i].status = "expired"]_vars

\* C8: complete succeeds only on an interview whose status is in-progress; on
\* any other status it is refused, and a refused complete changes no
\* interview, so completedAt and notes stay as the successful call set them.
C8_CompleteOnlyInProgress ==
    [][\A r \in Reqs :
        /\ Steps(r, "complete_guard")
           => IF loc[r].doc.status = "in-progress"
              THEN pc'[r] = "complete_save"
              ELSE /\ Replies(r) /\ out'.code = 400
                   /\ out'.message = "Interview is not in progress"
        /\ (Replies(r) /\ out'.op = "complete")
           => IF out'.code = 200
              THEN /\ out'.id \in DOMAIN interviews
                   /\ interviews[out'.id].status = "in-progress"
                   /\ interviews'[out'.id].status = "completed"
                   /\ interviews'[out'.id].completedAt = loc[r].now
              ELSE interviews' = interviews]_vars

\* A complete on an interview already completed was refused.
C8_SecondRefused ==
    /\ out.op = "complete" /\ out.code = 400
    /\ out.id \in DOMAIN interviews
    /\ interviews[out.id].status = "completed"
    /\ interviews[out.id].completedAt # NoDate

\* C9 as stated: after a sweep, a sweep run again at the same or at any later
\* instant, with no other operation in between, changes no interview and
\* reports 0.
C9_RerunLaterIsNoOp ==
    out.op = "cleanup"
    => \A t \in Instants :
          t >= out.now
          => cleanupExpiredInterviews(interviews, t) =
                 [store |-> interviews, modifiedCount |-> 0]

\* C9 as amended: each step of the sweep sets the interview it visits to
\* expired exactly when that interview is scheduled and its slot ended before
\* now; after the sweep no interview is left scheduled with its slot ended
\* before now, and a sweep run again with the same now changes no interview and
\* reports 0.
C9_SweepIdempotent ==
    /\ [](out.op = "cleanup"
          => /\ \A i \in DOMAIN interviews :
                   ~(interviews[i].status = "scheduled"
                     /\ EndTime(interviews[i]) < out.now)
             /\ cleanupExpiredInterviews(interviews, out.now) =
                   [store |-> interviews, modifiedCount |-> 0])
    /\ [][\A r \in Reqs :
            Steps(r, "cleanup_update")
            => LET i == loc[r].id
               IN  IF /\ i \in DOMAIN interviews
                      /\ interviews[i].status = "scheduled"
                      /\ EndTime(interviews[i]) < loc[r].now
                   THEN interviews' = [interviews EXCEPT ![i].status = "expired"]
                   ELSE interviews' = interviews]_vars

\* A sweep has expired at least one interview.
C9_SweptSome == out.op = "cleanup" /\ out.info > 0

\* C10: a step of the sweep changes no interview whose stored status is not
\* scheduled at that step, also when its slot has ended.
C10_SweepOnlyScheduled ==
    [][\A r \in Reqs :
        Steps(r, "cleanup_update")
        => \A i \in DOMAIN interviews :
              interviews[i].status # "scheduled"
              => i \in DOMAIN interviews' /\ interviews'[i] = interviews[i]]_vars

\* A sweep has run to its end past the slot of an interview that was started
\* and never completed, and the interview is still in progress.
C10_StartedStaysInProgress ==
    /\ out.op = "cleanup"
    /\ \E i \in DOMAIN interviews :
          interviews[i].status = "in-progress" /\ EndTime(interviews[i]) < out.now

\* C11: a start or complete request that is rejected (interview not found,
\* too early, window expired, wrong status) leaves the store of interviews
\* exactly as it was, under every interleaving.
C11_RejectedChangesNothing ==
    [][\A r \in Reqs :
        (Replies(r) /\ out'.op \in {"start", "complete"} /\ out'.code \in {400, 404})
        => interviews' = interviews]_vars

\* A start was rejected as past its window and the interview is still
\* scheduled.
C11_RejectedStillScheduled ==
    /\ out.op = "start" /\ out.code = 400
    /\ out.message = "Interview time has expired"
    /\ out.id \in DOMAIN interviews
    /\ interviews[out.id].status = "scheduled"

\* C12: a cancel of the caller's own interview is rejected exactly when the
\* stored status is completed, and then the store stays as it was; otherwise
\* (scheduled or in-progress among them) it goes on to remove the record, and
\* only that record, and reports success.
C12_CancelRule ==
    [][\A r \in Reqs :
        /\ (pc[r] = "idle" /\ Replies(r) /\ out'.op = "cancel"
               /\ findOne(out'.id, out'.user) # NoDoc)
           => /\ interviews[out'.id].status = "completed"
              /\ out'.code = 400
              /\ out'.message = "Cannot cancel completed interview"
              /\ interviews' = interviews
        /\ (pc[r] = "idle" /\ pc'[r] = "cancel_delete")
           => /\ findOne(loc'[r].id, loc'[r].user) # NoDoc
              /\ interviews[loc'[r].id].status # "completed"
              /\ interviews' = interviews
        /\ Steps(r, "cancel_delete")
           => /\ Replies(r) /\ out'.op = "cancel" /\ out'.code = 200
              /\ DOMAIN interviews' = DOMAIN interviews \ {loc[r].id}
              /\ \A k \in DOMAIN interviews' : interviews'[k] = interviews[k]]_vars

\* A cancel of a completed interview was rejected and the record is still
\* there, completed.
C12_CompletedKept ==
    /\ out.op = "cancel" /\ out.code = 400
    /\ out.id \in DOMAIN interviews
    /\ interviews[out.id].status = "completed"

\* C13: a start, complete, cancel or get on an interview the caller does not
\* own is answered exactly as one on an id that does not exist, with the same
\* not-found response, and changes nothing; only the owner gets past the
\* lookup, and the handler then works on the owner's document alone, so that
\* interviews of other users never show in what the caller is answered.
OwnerOps == {"start", "complete", "cancel", "get"}

Owns(u, i) == i \in DOMAIN interviews /\ interviews[i].user = u

C13_NotOwnedIsNotFound ==
    [][\A r \in Reqs :
        /\ (pc[r] = "idle" /\ Replies(r) /\ out'.op \in OwnerOps
               /\ ~Owns(out'.user, out'.id))
           => /\ out' = Response(r, out'.op, out'.user, out'.id, "", 404,
                                 "Interview not found", 0)
              /\ interviews' = interviews
        /\ (pc[r] = "idle" /\ Replies(r) /\ out'.op \in OwnerOps
               /\ Owns(out'.user, out'.id))
           => out'.code # 404
        /\ (pc[r] = "idle" /\ pc'[r] \in {"start_guard", "complete_guard", "cancel_delete"})
           => /\ Owns(loc'[r].user, loc'[r].id)
              /\ loc'[r].doc = interviews[loc'[r].id]
              /\ interviews' = interviews]_vars

\* A request on an interview that exists and belongs to another user was
\* answered not found.
C13_OthersHidden ==
    /\ out.op \in OwnerOps /\ out.code = 404
    /\ out.id \in DOMAIN interviews
    /\ interviews[out.id].user # out.user

\* C14: listMine reads after its sweep and returns, each once, exactly the
\* caller's interviews whose status is scheduled or in-progress, in ascending
\* order of scheduledAt; when the clock has not moved since the call began, no
\* interview it returns is scheduled with its slot ended before now.
C14_ListMine ==
    [][\A r \in Reqs :
        /\ (pc[r] = "idle" /\ pc'[r] \in {"list_update", "list_find"})
           => pc'[r] = "list_update" /\ loc'[r].id = 1 /\ loc'[r].now = clock
        /\ (Steps(r, "list_update") /\ pc'[r] = "list_find")
           => loc[r].id = MaxInterviews
        /\ Steps(r, "list_find")
           => LET list == out'.list
                  mine == {i \in DOMAIN interviews :
                              /\ interviews[i].user = loc[r].user
                              /\ interviews[i].status \in {"scheduled", "in-progress"}}
              IN  /\ Replies(r) /\ out'.op = "list" /\ out'.code = 200
                  /\ {list[k].id : k \in DOMAIN list} = mine
                  /\ Len(list) = Cardinality(mine)
                  /\ \A k \in DOMAIN list :
                        /\ list[k].status = interviews[list[k].id].status
                        /\ list[k].scheduledAt = interviews[list[k].id].scheduledAt
                  /\ \A a, b \in DOMAIN list :
                        a < b => list[a].scheduledAt <= list[b].scheduledAt
                  /\ clock = loc[r].now
                     => \A k \in DOMAIN list :
                           ~(/\ list[k].status = "scheduled"
                             /\ list[k].scheduledAt + list[k].duration * MsPerMinute
                                   < clock)
                  /\ interviews' = interviews]_vars

\* A list left out an interview of the caller that the sweep had expired and
\* returned the one still active.
C14_ExpiredLeftOut ==
    /\ out.op = "list" /\ Len(out.list) = 1
    /\ \E i \in DOMAIN interviews :
          interviews[i].user = out.user /\ interviews[i].status = "expired"

\* C15: while the clock keeps advancing and the sweep keeps being invoked,
\* every interview in status scheduled eventually leaves that status (is
\* started, expired or removed), whatever its owner does or does not do.
C15_ScheduledEventuallyLeaves ==
    \A i \in Ids :
        (i \in DOMAIN interviews /\ interviews[i].status = "scheduled")
        ~> (i \notin DOMAIN interviews \/ interviews[i].status # "scheduled")

\* A sweep of the sweeper's slot has expired an interview its owner left
\* alone.
C15_SweeperExpired ==
    /\ out.op = "cleanup" /\ out.req \in SweepReqs /\ out.info > 0
    /\ \E i \in DOMAIN interviews :
          interviews[i].status = "expired" /\ interviews[i].startedAt = NoDate

\* C16: in every reachable state, under any interleaving, each stored
\* interview has startedAt set exactly when it has been in-progress (its status
\* is in-progress or completed, the only statuses that follow a start) and
\* completedAt set exactly when its status is completed.
C16_TimestampsMatchStatus ==
    \A i \in DOMAIN interviews :
        /\ interviews[i].startedAt # NoDate
              <=> interviews[i].status \in {"in-progress", "completed"}
        /\ interviews[i].completedAt # NoDate
              <=> interviews[i].status = "completed"

\* C17: every stored interview has duration > 0, whatever duration the
\* schedule request carried.
C17_PositiveDuration ==
    \A i \in DOMAIN interviews : interviews[i].duration > 0

\* C18: with requests one at a time, a schedule request that has passed the
\* other guards is rejected as a slot conflict when its slot overlaps an active
\* interview of the same candidate, whatever the job of either, and is
\* accepted and stored when its slot starts exactly at the end of an active
\* interview of the candidate and overlaps no active interview.
OverlapsActiveOf(u, scheduledAt, duration) ==
    \E i \in DOMAIN interviews :
        /\ interviews[i].user = u /\ Active(interviews[i])
        /\ Overlap(scheduledAt, scheduledAt + duration * MsPerMinute,
                   interviews[i].scheduledAt, EndTime(interviews[i]))

AbutsActiveOf(u, scheduledAt) ==
    \E i \in DOMAIN interviews :
        /\ interviews[i].user = u /\ Active(interviews[i])
        /\ EndTime(interviews[i]) = scheduledAt

C18_ConflictAcrossJobs ==
    [][\A r \in Reqs :
        /\ (Steps(r, "schedule_scan")
               /\ OverlapsActiveOf(loc[r].user, loc[r].scheduledAt, loc[r].duration))
           => /\ Replies(r) /\ out'.code = 400
              /\ out'.message =
                    "Time slot is already booked. Please choose a different time."
              /\ interviews' = interviews
        /\ (Steps(r, "schedule_scan")
               /\ AbutsActiveOf(loc[r].user, loc[r].scheduledAt)
               /\ ~OverlapsActive(interviews, loc[r].scheduledAt, loc[r].duration))
           => pc'[r] = "schedule_insert"
        /\ Steps(r, "schedule_insert")
           => /\ Replies(r) /\ out'.code = 201
              /\ out'.id \notin DOMAIN interviews
              /\ out'.id \in DOMAIN interviews'
              /\ interviews'[out'.id].scheduledAt = loc[r].scheduledAt
              /\ interviews'[out'.id].job = loc[r].job
              /\ interviews'[out'.id].status = "scheduled"]_vars

\* A request was rejected for a conflict while every stored interview, the
\* candidate's active one among them, is for another job than the request.
C18_RejectedAcrossJobs ==
    /\ out.op = "schedule" /\ out.code = 400
    /\ out.message = "Time slot is already booked. Please choose a different time."
    /\ \A i \in DOMAIN interviews : interviews[i].job # out.job
    /\ \E i \in DOMAIN interviews :
          Active(interviews[i]) /\ interviews[i].user = out.user

InvalidTimeRule(r) ==
    Steps(r, "schedule_validate") /\ loc[r].user \in applications[loc[r].job]
    => /\ loc[r].scheduledAt <= clock
          => /\ Replies(r) /\ out'.code = 400
             /\ out'.message = "Interview must be scheduled for a future time"
             /\ interviews' = interviews /\ nextId' = nextId
       /\ pc'[r] = "schedule_scan" => loc[r].scheduledAt > clock

\* C19 as stated: a schedule request with scheduledAt <= now is rejected as an
\* invalid time and creates nothing, and every interview is created at an
\* instant strictly before its scheduledAt.
C19_CreatedBeforeSlot ==
    [][\A r \in Reqs :
        /\ InvalidTimeRule(r)
        /\ Steps(r, "schedule_insert") => loc[r].scheduledAt > clock]_vars

\* C19 as amended: a schedule request with scheduledAt <= now is rejected as
\* an invalid time and creates nothing, and a request goes on to the conflict
\* scan and the insert only with scheduledAt strictly later than the instant
\* at which the handler compared it with the clock.
C19_InvalidTime ==
    [][\A r \in Reqs :
        /\ InvalidTimeRule(r)
        /\ (Replies(r) /\ out'.op = "schedule" /\ out'.code = 201)
           => /\ pc[r] = "schedule_insert"
              /\ interviews'[out'.id].scheduledAt = loc[r].scheduledAt]_vars

\* A request for the present instant (the clock reads 0 and no scheduledAt is
\* earlier than 0) was rejected as an invalid time.
C19_PresentRejected ==
    /\ out.op = "schedule" /\ out.code = 400
    /\ out.message = "Interview must be scheduled for a future time"
    /\ clock = 0

\* C20: the application is looked at when the schedule request reads the job
\* and nowhere else: a request by a candidate with no application then is
\* rejected and creates nothing; removing an application changes no
\* interview; and start, complete, cancel and get on an interview go on as
\* they do for any owner, whether or not the owner's application still stands.
C20_AppliedAtScheduleOnly ==
    [][/\ \A r \in Reqs :
            /\ (pc[r] = "idle" /\ pc'[r] = "schedule_validate")
               => loc'[r].hasApplied = (loc'[r].user \in applications[loc'[r].job])
            /\ (Steps(r, "schedule_validate") /\ ~loc[r].hasApplied)
               => /\ Replies(r) /\ out'.code = 400
                  /\ out'.message =
                        "You must apply to this job before scheduling an interview"
                  /\ interviews' = interviews /\ nextId' = nextId
            /\ (pc[r] = "idle" /\ Replies(r) /\ out'.op \in OwnerOps
                   /\ Owns(out'.user, out'.id))
               => /\ out'.code # 404
                  /\ out'.op = "get" => out'.code = 200
            /\ (Steps(r, "start_guard") /\ loc[r].doc.status = "scheduled"
                   /\ loc[r].doc.scheduledAt <= clock /\ clock < EndTime(loc[r].doc))
               => pc'[r] = "start_save"
            /\ Steps(r, "start_save") => out'.code = 200
            /\ (Steps(r, "complete_guard") /\ loc[r].doc.status = "in-progress")
               => pc'[r] = "complete_save"
            /\ Steps(r, "complete_save") => out'.code = 200
            /\ Steps(r, "cancel_delete") => out'.code = 200
       /\ applications' # applications => interviews' = interviews]_vars

\* A start succeeded on an interview whose owner no longer has an application
\* on its job.
C20_StartedWithoutApplication ==
    /\ out.op = "start" /\ out.code = 200
    /\ out.id \in DOMAIN interviews
    /\ out.user \notin applications[interviews[out.id].job]

\* C21: fail closed: a schedule request goes from the conflict scan on to the
\* insert only when the scan has run and no active interview overlaps the
\* requested slot; when the scan raises an error the request is answered with
\* a failure and no interview is created.
C21_FailClosed ==
    [][\A r \in Reqs :
        /\ (Steps(r, "schedule_scan") /\ pc'[r] = "schedule_insert")
           => ~OverlapsActive(interviews, loc[r].scheduledAt, loc[r].duration)
        /\ Steps(r, "schedule_scan") => interviews' = interviews /\ nextId' = nextId
        /\ (Replies(r) /\ out'.op = "schedule" /\ out'.code = 500)
           => /\ pc[r] = "schedule_scan"
              /\ out'.message = "Failed to schedule interview"
              /\ interviews' = interviews /\ nextId' = nextId]_vars

\* A schedule request was answered with the failure of the scan and the store
\* has never held an interview.
C21_FailedNothingCreated ==
    /\ out.op = "schedule" /\ out.code = 500
    /\ nextId = 1 /\ DOMAIN interviews = {}

\* C22: get changes no stored interview (it does not run the sweep), and the
\* body it returns is built at the current instant: it shows the stored status
\* and an isExpired that is true exactly when now > scheduledAt + duration and
\* the stored status is scheduled.
C22_GetReadOnly ==
    [][\A r \in Reqs :
        (Replies(r) /\ out'.op = "get")
        => /\ interviews' = interviews
           /\ out'.code = 200
              => LET v == out'.list[1]
                     d == interviews[out'.id]
                 IN  /\ Len(out'.list) = 1 /\ v.id = out'.id
                     /\ v.status = d.status
                     /\ v.isExpired =
                           (/\ clock > d.scheduledAt + d.duration * MsPerMinute
                            /\ d.status = "scheduled")]_vars

\* A get showed isExpired true and the interview is still stored as scheduled.
C22_ShownExpiredNotSwept ==
    /\ out.op = "get" /\ out.code = 200
    /\ out.list[1].isExpired
    /\ out.id \in DOMAIN interviews
    /\ interviews[out.id].status = "scheduled"

\* C23: the sweep matches a scheduled interview whenever now >= scheduledAt +
\* duration, so that for a scheduled interview whose start time has been
\* reached exactly one of the two is open at every instant: the guards of
\* start pass, or the sweep expires it.
StartPasses(doc, now) ==
    /\ ~NotStartedYet(doc.scheduledAt - now)
    /\ ~TimeExpired(EndTime(doc) - now)
    /\ ~CannotStart(doc.status)

C23_StartOrExpire ==
    \A i \in DOMAIN interviews :
        (interviews[i].status = "scheduled" /\ interviews[i].scheduledAt <= clock)
        => /\ clock >= EndTime(interviews[i]) => ExpiredFilter(interviews[i], clock)
           /\ StartPasses(interviews[i], clock) # ExpiredFilter(interviews[i], clock)

\* C24: from its creation to its removal no step of any operation changes the
\* owning candidate, the job, scheduledAt or duration of an interview, and its
\* id is its own for good: a new interview never takes the id of one stored
\* before.
C24_IdentityImmutable ==
    [][/\ \A i \in DOMAIN interviews \cap DOMAIN interviews' :
            /\ interviews'[i].user = interviews[i].user
            /\ interviews'[i].job = interviews[i].job
            /\ interviews'[i].scheduledAt = interviews[i].scheduledAt
            /\ interviews'[i].duration = interviews[i].duration
       /\ \A i \in DOMAIN interviews' \ DOMAIN interviews :
            i = nextId /\ nextId' > nextId]_vars

\* One interview has been started and completed, another expired by the sweep.
C24_LivedThrough ==
    \E i, k \in DOMAIN interviews :
        /\ interviews[i].status = "completed" /\ interviews[i].startedAt # NoDate
        /\ interviews[k].status = "expired"

\* C25: once startedAt (completedAt) of an interview is set, no step of any
\* interleaving of start and complete requests changes its value.
C25_WrittenOnce ==
    [][\A i \in DOMAIN interviews \cap DOMAIN interviews' :
        /\ interviews[i].startedAt # NoDate
           => interviews'[i].startedAt = interviews[i].startedAt
        /\ interviews[i].completedAt # NoDate
           => interviews'[i].completedAt = interviews[i].completedAt]_vars

\* C26: complete has no time guard: on an interview the handler finds in
\* status in-progress it goes through at every instant, sets status completed
\* and completedAt to the instant read by the handler, and writes notes exactly
\* when the request carries notes that are neither absent nor empty.
C26_CompleteAnyTime ==
    [][\A r \in Reqs :
        /\ (Steps(r, "complete_guard") /\ loc[r].doc.status = "in-progress")
           => pc'[r] = "complete_save" /\ loc'[r].now = clock
        /\ Steps(r, "complete_save")
           => LET i == loc[r].id
              IN  /\ Replies(r) /\ out'.code = 200
                  /\ interviews'[i].status = "completed"
                  /\ interviews'[i].completedAt = loc[r].now
                  /\ interviews'[i].notes =
                        IF loc[r].notes \in {NoNotes, ""}
                        THEN interviews[i].notes ELSE loc[r].notes
                  /\ interviews'[i].startedAt = interviews[i].startedAt]_vars

\* A complete succeeded after the end of the slot and after startedAt +
\* duration.
C26_CompletedLate ==
    /\ out.op = "complete" /\ out.code = 200
    /\ out.id \in DOMAIN interviews
    /\ interviews[out.id].completedAt > EndTime(interviews[out.id])
    /\ interviews[out.id].completedAt >
          interviews[out.id].startedAt + interviews[out.id].duration * MsPerMinute

C28_CancelFreesSlot ==
    [][\A r \in Reqs :
        /\ (/\ Steps(r, "cancel_delete") /\ Replies(r) /\ out'.code = 200
            /\ Active(loc[r].doc))
           => \A at \in Instants, d \in 1 .. MaxTime :
                 loc[r].id \notin checkTimeConflict(interviews', at, d, NoId)
        /\ (/\ Steps(r, "schedule_scan")
            /\ ~OverlapsActive(interviews, loc[r].scheduledAt, loc[r].duration))
           => pc'[r] = "schedule_insert"
        /\ Steps(r, "schedule_insert")
           => /\ Replies(r) /\ out'.code = 201
              /\ out'.id \in DOMAIN interviews' \ DOMAIN interviews
              /\ interviews'[out'.id].scheduledAt = loc[r].scheduledAt]_vars

\* The slot of the cancelled interview 1 was booked again as interview 2.
C28_RebookedAfterCancel ==
    /\ out.op = "schedule" /\ out.code = 201 /\ out.id = 2
    /\ 1 \notin DOMAIN interviews
    /\ 2 \in DOMAIN interviews
    /\ interviews[2].scheduledAt = MsPerMinute /\ interviews[2].duration = 1

\* C29: a cancel that answers 200 leaves the interview in the store with
\* status cancelled, and no later step changes the status of a cancelled
\* interview or removes it.
C29_CancelledRetained ==
    [][/\ \A r \in Reqs :
            (Replies(r) /\ out'.op = "cancel" /\ out'.code = 200)
            => /\ out'.id \in DOMAIN interviews'
               /\ interviews'[out'.id].status = "cancelled"
       /\ \A i \in DOMAIN interviews :
            interviews[i].status = "cancelled"
            => i \in DOMAIN interviews' /\ interviews'[i].status = "cancelled"]_vars

\* C30: a cancel answers 200 only for an interview stored as scheduled or
\* in-progress, and a cancel request on an expired interview leaves the
\* expired record in the store as it was.
C30_CancelOnlyActive ==
    [][\A r \in Reqs :
        /\ (Replies(r) /\ out'.op = "cancel" /\ out'.code = 200)
           => out'.id \in DOMAIN interviews /\ Active(interviews[out'.id])
        /\ (/\ pc[r] = "cancel_delete" /\ Steps(r, "cancel_delete")
            /\ loc[r].id \in DOMAIN interviews
            /\ interviews[loc[r].id].status = "expired")
           => /\ loc[r].id \in DOMAIN interviews'
              /\ interviews'[loc[r].id] = interviews[loc[r].id]]_vars

\* C31: with sweeps running concurrently, every step of a sweep adds to its
\* count exactly the number of interviews whose status the step changed (none
\* or one, from scheduled and overdue to expired), and an interview that has
\* left scheduled never returns to it, so that no interview is counted by two
\* sweeps or twice by one.
C31_SweepCountsOnce ==
    [][/\ \A r \in Reqs :
            Steps(r, "cleanup_update")
            => LET n == IF out' # NoResp THEN out'.info ELSE loc'[r].count
                   changed == {k \in DOMAIN interviews :
                                  interviews'[k].status # interviews[k].status}
               IN  /\ DOMAIN interviews' = DOMAIN interviews
                   /\ n - loc[r].count = Cardinality(changed)
                   /\ Cardinality(changed) <= 1
                   /\ \A k \in changed :
                         /\ interviews[k].status = "scheduled"
                         /\ interviews'[k].status = "expired"
                         /\ EndTime(interviews[k]) < loc[r].now
       /\ \A k \in DOMAIN interviews \cap DOMAIN interviews' :
            interviews[k].status # "scheduled" => interviews'[k].status # "scheduled"]_vars

\* Two sweeps ran over the same two overdue interviews together: the sweep of
\* slot 2 has answered with count 1 (interview 2) while the sweep of slot 1,
\* still on its way, holds count 1 (interview 1).
C31_TwoSweepsShared ==
    /\ out # NoResp /\ out.op = "cleanup" /\ out.req = 2 /\ out.info = 1
    /\ pc[1] = "cleanup_update" /\ loc[1].count = 1
    /\ \A k \in {1, 2} : k \in DOMAIN interviews /\ interviews[k].status = "expired"

\* C32: the conflict scan looks at the whole store: a schedule request is
\* rejected as a slot conflict when an active interview of another candidate
\* overlaps its slot, and with requests one at a time and positive durations
\* no two active interviews in the store overlap, whoever owns them.
C32_PoolIsWholeStore ==
    [][/\ \A r \in Reqs :
            (/\ Steps(r, "schedule_scan")
             /\ \E i \in DOMAIN interviews :
                   /\ interviews[i].user # loc[r].user /\ Active(interviews[i])
                   /\ Overlap(loc[r].scheduledAt,
                              loc[r].scheduledAt + loc[r].duration * MsPerMinute,
                              interviews[i].scheduledAt, EndTime(interviews[i])))
            => /\ Replies(r) /\ out'.code = 400
               /\ out'.message =
                     "Time slot is already booked. Please choose a different time."
               /\ interviews' = interviews
       /\ \A i, j \in DOMAIN interviews' :
            (i # j /\ Active(interviews'[i]) /\ Active(interviews'[j]))
            => ~SlotsOverlap(interviews'[i], interviews'[j])]_vars

\* Candidate u2 was rejected for a conflict while every stored interview is
\* u1's.
C32_RejectedForAnothers ==
    /\ out.op = "schedule" /\ out.code = 400 /\ out.user = "u2"
    /\ out.message = "Time slot is already booked. Please choose a different time."
    /\ interviews # <<>>
    /\ \A i \in DOMAIN interviews : interviews[i].user = "u1"

\* C33: with requests one at a time, a step changes the status of a stored
\* interview only from scheduled to in-progress (the save of a start), from
\* scheduled to expired (the update of a sweep) or from in-progress to
\* completed (the save of a complete), and removes an interview only as the
\* delete of a cancel, and then one whose status is not completed.
C33_OnlyListedTransitions ==
    [][\A i \in DOMAIN interviews :
          IF i \in DOMAIN interviews'
          THEN interviews'[i].status # interviews[i].status
               => LET from == interviews[i].status
                      to == interviews'[i].status
                  IN  \/ /\ from = "scheduled" /\ to = "in-progress"
                         /\ \E r \in Reqs : Steps(r, "start_save") /\ loc[r].id = i
                      \/ /\ from = "scheduled" /\ to = "expired"
                         /\ \E r \in Reqs :
                               Steps(r, "cleanup_update") \/ Steps(r, "list_update")
                      \/ /\ from = "in-progress" /\ to = "completed"
                         /\ \E r \in Reqs : Steps(r, "complete_save") /\ loc[r].id = i
          ELSE /\ \E r \in Reqs : Steps(r, "cancel_delete") /\ loc[r].id = i
               /\ interviews[i].status # "completed"]_vars

\* Interview 1 went through start and complete, and interview 2 was removed
\* by a cancel.
C33_CompletedAndCancelled ==
    /\ out.op = "cancel" /\ out.code = 200 /\ out.id = 2
    /\ DOMAIN interviews = {1}
    /\ interviews[1].status = "completed"

C35_InProgressUntilOwnerActs ==
    [][/\ \A i \in DOMAIN interviews :
            (/\ interviews[i].status = "in-progress"
             /\ (i \notin DOMAIN interviews' \/ interviews'[i].status # "in-progress"))
            => \E r \in Reqs :
                  /\ loc[r].id = i /\ loc[r].user = interviews[i].user
                  /\ \/ Steps(r, "complete_save") /\ interviews'[i].status = "completed"
                     \/ Steps(r, "cancel_delete") /\ i \notin DOMAIN interviews'
       /\ \A r \in Reqs :
            (Replies(r) /\ out'.op = "list")
            => \A i \in DOMAIN interviews :
                  (interviews[i].status = "in-progress" /\ interviews[i].user = out'.user)
                  => \E k \in DOMAIN out'.list :
                        /\ out'.list[k].id = i
                        /\ out'.list[k].status = "in-progress"
                        /\ clock >= interviews[i].startedAt
                                       + interviews[i].duration * MsPerMinute
                           => out'.list[k].timeRemaining = 0]_vars

\* A list built after the end of the slot, its sweep done, shows an interview
\* still in-progress with timeRemaining 0.
C35_AbandonedStillListed ==
    /\ out.op = "list" /\ out.code = 200
    /\ \E k \in DOMAIN out.list :
          /\ out.list[k].status = "in-progress"
          /\ out.list[k].timeRemaining = 0
          /\ out.now > out.list[k].scheduledAt + out.list[k].duration * MsPerMinute
          /\ out.now > out.list[k].startedAt + out.list[k].duration * MsPerMinute

\* C36: a list request writes to the store, and not only to the caller's
\* interviews: each step of its sweep sets to expired the interview it visits
\* when that one is scheduled and overdue at the instant the list read,
\* whoever owns it, and changes nothing else; when the sweep is done no
\* scheduled interview of any user is overdue at that instant; the find that
\* follows writes nothing.
C36_ListSweepsEveryone ==
    [][\A r \in Reqs :
        /\ Steps(r, "list_update")
           => /\ interviews' =
                    [k \in DOMAIN interviews |->
                        IF /\ k = loc[r].id
                           /\ interviews[k].status = "scheduled"
                           /\ EndTime(interviews[k]) < loc[r].now
                        THEN [interviews[k] EXCEPT !.status = "expired"]
                        ELSE interviews[k]]
              /\ nextId' = nextId /\ applications' = applications
        /\ (Steps(r, "idle") /\ pc'[r] = "list_update")
           => interviews' = interviews /\ loc'[r].now = clock
        /\ Steps(r, "list_find")
           => /\ \A i \in DOMAIN interviews :
                    interviews[i].status = "scheduled"
                    => EndTime(interviews[i]) >= loc[r].now
              /\ interviews' = interviews
              /\ nextId' = nextId /\ applications' = applications]_vars

\* A list of u2, who holds no interview, has answered, and an interview of u1
\* is expired; in this specification only the lists of u2 sweep.
C36_ExpiredByAnothersList ==
    /\ out.op = "list" /\ out.code = 200 /\ out.user = "u2" /\ out.list = <<>>
    /\ \E i \in DOMAIN interviews :
          interviews[i].user = "u1" /\ interviews[i].status = "expired"
    /\ \E i \in DOMAIN interviews :
          interviews[i].user = "u1" /\ interviews[i].status = "scheduled"

\* C37: at no instant does an interview pass the guards of start and match
\* the filter of the sweep; every expired interview has scheduledAt + duration
\* before the present instant; and, requests one at a time, a start on an
\* expired interview is refused with "Interview time has expired".
C37_ExpiredStartFailsAsExpired ==
    [][/\ \A i \in DOMAIN interviews' :
            /\ ~(StartPasses(interviews'[i], clock') /\ ExpiredFilter(interviews'[i], clock'))
            /\ interviews'[i].status = "expired" => EndTime(interviews'[i]) < clock'
       /\ \A r \in Reqs :
            (Steps(r, "start_guard") /\ loc[r].doc.status = "expired")
            => /\ Replies(r) /\ out'.code = 400
               /\ out'.message = "Interview time has expired"
               /\ interviews' = interviews]_vars

====
